---- MODULE Spec2Model ----
(***************************************************************************)
(* RideWave backend: route cache, geospatial driver index, ride dispatch   *)
(* and the ride status transition, modelled from the Go sources.           *)
(*                                                                         *)
(* Time is counted in ticks of five minutes.  Coordinates are integers in  *)
(* model units; the geospatial index keeps the number of the cell a        *)
(* coordinate falls in, as the store's GEOADD does, and answers with the   *)
(* centre of that cell.                                                    *)
(***************************************************************************)
EXTENDS Integers, Sequences, FiniteSets, TLC

VARIABLES
    driver,      \* relational table driver: id -> row
    rides,       \* relational table rides: sequence of rows, id = position
    routeCache,  \* store keys routes:cache:<routeID> -> [val, ttl]
    stored,      \* history: every StorePlannedRoute call, with its age
    geo,         \* store sorted set drivers:geo: member -> cell
    driverData,  \* store keys drivers:data:<driverID> -> [val, ttl]
    bgTasks,     \* goroutines started by SafeGo and not yet run
    channel,     \* messages published on ride_requests, not yet received
    pushes,      \* push notifications handed to FCM: [rideId, token]
    emitted,     \* realtime events emitted: [event, room, rideId]
    req,         \* per driver: the HTTP request in flight and its outcome
    upd,         \* per socket: the UpdateDriverLocation call in flight
    http,        \* the last rider-side request and its response
    sinceBeat,   \* history: per driver, ticks since the last position update
    proc,        \* the server process: serving, waiting for tasks, exited
    rt,          \* realtime server: rooms of each socket, events delivered
    call         \* per request under TimeoutMiddleware: timer, handler, body

vars == <<driver, rides, routeCache, stored, geo, driverData, bgTasks,
          channel, pushes, emitted, req, upd, http, sinceBeat, proc, rt,
          call>>

----------------------------------------------------------------------------
(* Bounds of the model *)

MaxRides == 2
MaxBooked == 1
GeoCell == 4
MaxLat == 12
MaxLon == 48
MaxQueued == 3

(* Program constants *)

RouteTTL == 3
DriverTTL == 12
DispatchRadius == 5
GracePeriod == 5
RequestTimeout == 10

NULL == "<null>"
Drivers == {"d1", "d2"}
Users == {"u1"}
Sockets == {"s1", "s2"}
VehicleTypes == {"Car", "Auto"}
RouteIDs == {"", "req-1"}

Max(a, b) == IF a > b THEN a ELSE b
Abs(a) == IF a < 0 THEN 0 - a ELSE a

----------------------------------------------------------------------------
(* encoding/json on the structs the store holds: Marshal writes one member *)
(* per field under the field's json tag, Unmarshal reads the members back. *)

MarshalCachedRoute(route) ==
    [k \in {"polyline", "distance", "duration", "fare", "vehicleType",
            "originName", "destinationName", "originLat", "originLng",
            "destinationLat", "destinationLng"} |->
        CASE k = "polyline" -> route.Polyline
          [] k = "distance" -> route.Distance
          [] k = "duration" -> route.Duration
          [] k = "fare" -> route.Fare
          [] k = "vehicleType" -> route.VehicleType
          [] k = "originName" -> route.OriginName
          [] k = "destinationName" -> route.DestinationName
          [] k = "originLat" -> route.OriginLat
          [] k = "originLng" -> route.OriginLng
          [] k = "destinationLat" -> route.DestinationLat
          [] k = "destinationLng" -> route.DestinationLng]

UnmarshalCachedRoute(val) ==
    [Polyline |-> val["polyline"], Distance |-> val["distance"],
     Duration |-> val["duration"], Fare |-> val["fare"],
     VehicleType |-> val["vehicleType"], OriginName |-> val["originName"],
     DestinationName |-> val["destinationName"],
     OriginLat |-> val["originLat"], OriginLng |-> val["originLng"],
     DestinationLat |-> val["destinationLat"],
     DestinationLng |-> val["destinationLng"]]

MarshalDriverLocation(data) ==
    [k \in {"latitude", "longitude", "socketId", "driverId"} |->
        CASE k = "latitude" -> data.Latitude
          [] k = "longitude" -> data.Longitude
          [] k = "socketId" -> data.SocketID
          [] k = "driverId" -> data.DriverID]

UnmarshalDriverLocation(val) ==
    [Latitude |-> val["latitude"], Longitude |-> val["longitude"],
     SocketID |-> val["socketId"], DriverID |-> val["driverId"]]

----------------------------------------------------------------------------
(* Route cache *)

\* SET routes:cache:<routeID> val EX 15min: overwrites the key and its TTL.
StorePlannedRoute(cache, routeID, route) ==
    [k \in DOMAIN cache \cup {routeID} |->
        IF k = routeID
        THEN [val |-> MarshalCachedRoute(route), ttl |-> RouteTTL]
        ELSE cache[k]]

\* GetPlannedRoute that takes a missing key for an empty value.
GetPlannedRouteNoMiss(cache, routeID) ==
    IF routeID \in DOMAIN cache
    THEN [err |-> FALSE, route |-> UnmarshalCachedRoute(cache[routeID].val)]
    ELSE [err |-> FALSE,
          route |-> [Polyline |-> "", Distance |-> 0, Duration |-> 0,
                     Fare |-> 0, VehicleType |-> "", OriginName |-> <<>>,
                     DestinationName |-> <<>>, OriginLat |-> 0,
                     OriginLng |-> 0, DestinationLat |-> 0,
                     DestinationLng |-> 0]]

\* GetPlannedRoute that refuses a route some ride was already created from.
GetPlannedRouteSingleUse(cache, routeID) ==
    IF routeID \in DOMAIN cache
       /\ \A i \in 1..Len(rides) : rides[i].routeId # routeID
    THEN [err |-> FALSE, route |-> UnmarshalCachedRoute(cache[routeID].val)]
    ELSE [err |-> TRUE, route |-> NULL]

\* GET routes:cache:<routeID>: a missing key (never set, or expired) is the
\* store's Nil error.
GetPlannedRoute(cache, routeID) ==
    IF routeID \in DOMAIN cache
    THEN [err |-> FALSE, route |-> UnmarshalCachedRoute(cache[routeID].val)]
    ELSE [err |-> TRUE, route |-> NULL]

----------------------------------------------------------------------------
(* Geospatial driver index *)

\* The index keeps the cell of a coordinate, not the coordinate.
GeoEncode(x) == x \div GeoCell
GeoDecode(c) == c * GeoCell + GeoCell \div 2

\* GEOADD that takes its coordinates in the order latitude, longitude.
GeoAddSwapped(g, member, lon, lat) ==
    IF Abs(lat) > MaxLat \/ Abs(lon) > MaxLon
    THEN [err |-> TRUE, geo |-> g]
    ELSE [err |-> FALSE,
          geo |-> [m \in DOMAIN g \cup {member} |->
                      IF m = member
                      THEN [lat |-> GeoEncode(lon), lon |-> GeoEncode(lat)]
                      ELSE g[m]]]

\* GEOADD drivers:geo lon lat member; coordinates outside the range the
\* index supports are an error and nothing is written.
GeoAdd(g, member, lon, lat) ==
    IF Abs(lat) > MaxLat \/ Abs(lon) > MaxLon
    THEN [err |-> TRUE, geo |-> g]
    ELSE [err |-> FALSE,
          geo |-> [m \in DOMAIN g \cup {member} |->
                      IF m = member
                      THEN [lat |-> GeoEncode(lat), lon |-> GeoEncode(lon)]
                      ELSE g[m]]]

ZRem(g, member) == [m \in DOMAIN g \ {member} |-> g[m]]

Del(d, key) == [k \in DOMAIN d \ {key} |-> d[k]]

\* Squared planar distance between two points.
GeoDist(lat1, lon1, lat2, lon2) ==
    (lat1 - lat2) * (lat1 - lat2) + (lon1 - lon2) * (lon1 - lon2)

GeoLocation(g, m, lon, lat) ==
    [Name |-> m, Latitude |-> GeoDecode(g[m].lat),
     Longitude |-> GeoDecode(g[m].lon),
     Dist |-> GeoDist(GeoDecode(g[m].lat), GeoDecode(g[m].lon), lat, lon)]

RECURSIVE SortAsc(_)
SortAsc(locs) ==
    IF locs = {} THEN <<>>
    ELSE LET first == CHOOSE l \in locs : \A o \in locs : l.Dist <= o.Dist
         IN <<first>> \o SortAsc(locs \ {first})

\* GEORADIUS drivers:geo lon lat radius km WITHCOORD WITHDIST ASC
GeoRadius(g, lon, lat, radius) ==
    SortAsc({l \in {GeoLocation(g, m, lon, lat) : m \in DOMAIN g} :
                l.Dist <= radius * radius})

RECURSIVE NearbyFrom(_, _)
NearbyFrom(locs, data) ==
    IF locs = <<>> THEN <<>>
    ELSE LET loc == Head(locs)
             rest == NearbyFrom(Tail(locs), data)
         IN IF loc.Name \in DOMAIN data
            THEN <<[UnmarshalDriverLocation(data[loc.Name].val)
                       EXCEPT !.Latitude = loc.Latitude,
                              !.Longitude = loc.Longitude]>> \o rest
            ELSE rest

\* Entries of the index whose metadata key is missing are skipped.
GetNearbyDrivers(g, data, lat, lon, radiusKm) ==
    NearbyFrom(GeoRadius(g, lon, lat, radiusKm), data)

DriverIDs(ds) == {ds[i].DriverID : i \in 1..Len(ds)}

\* SET of the metadata with a TTL of two hours.
SetDriverDataLongTTL(data, driverID, lat, lon, socketID) ==
    [k \in DOMAIN data \cup {driverID} |->
        IF k = driverID
        THEN [val |-> MarshalDriverLocation(
                         [Latitude |-> lat, Longitude |-> lon,
                          SocketID |-> socketID, DriverID |-> driverID]),
              ttl |-> 2 * DriverTTL]
        ELSE data[k]]

SetDriverData(data, driverID, lat, lon, socketID) ==
    [k \in DOMAIN data \cup {driverID} |->
        IF k = driverID
        THEN [val |-> MarshalDriverLocation(
                         [Latitude |-> lat, Longitude |-> lon,
                          SocketID |-> socketID, DriverID |-> driverID]),
              ttl |-> DriverTTL]
        ELSE data[k]]

\* RemoveDriver that sends the store no command.
RemoveDriverNoop(g, data, driverID) ==
    [geo |-> g, data |-> data]

\* Both store commands of RemoveDriver.
RemoveDriver(g, data, driverID) ==
    [geo |-> ZRem(g, driverID), data |-> Del(data, driverID)]

----------------------------------------------------------------------------
(* Quotes *)

\* Origin and destination arrive as "lat,lng" text; the model keeps the
\* text as its comma-separated parts.
Numerals == [s \in {"0", "1", "2", "9", "40"} |->
                CASE s = "0" -> 0 [] s = "1" -> 1 [] s = "2" -> 2
                  [] s = "9" -> 9 [] s = "40" -> 40]

\* strconv.ParseFloat with the error dropped: text that is no number is 0.
ParseFloat(s) == IF s \in DOMAIN Numerals THEN Numerals[s] ELSE 0

ParseLatLng(latLngStr) ==
    IF Len(latLngStr) # 2 THEN <<0, 0>>
    ELSE <<ParseFloat(latLngStr[1]), ParseFloat(latLngStr[2])>>

Origins == {<<"1", "2">>}
Destinations == {<<"9", "9">>}
Distances == {3000}
Durations == {600}

\* Rows seeded into vehicle_types, in tenths of a rupee.
VehicleTypeRates ==
    [vt \in {"Car", "Auto"} |->
        IF vt = "Car"
        THEN [baseFare |-> 500, perKmRate |-> 120, perMinRate |-> 20]
        ELSE [baseFare |-> 400, perKmRate |-> 100, perMinRate |-> 15]]

\* Fare with the 15% platform fee, rounded up to a whole rupee; a vehicle
\* type without a row is priced with the fallback rates.
CalculateFare(vehicleType, distanceMeters, durationSeconds) ==
    LET rates == IF vehicleType \in DOMAIN VehicleTypeRates
                 THEN VehicleTypeRates[vehicleType]
                 ELSE [baseFare |-> 500, perKmRate |-> 120, perMinRate |-> 20]
        rideCost == rates.baseFare
                    + (distanceMeters * rates.perKmRate) \div 1000
                    + (durationSeconds * rates.perMinRate) \div 60
    IN (rideCost * 115 + 999) \div 1000

\* The CachedRoute GetRideEstimate builds from its request and the
\* directions response.
PlannedRoute(origin, destination, vehicleType, polyline, distance, duration) ==
    [Polyline |-> polyline, Distance |-> distance, Duration |-> duration,
     Fare |-> CalculateFare(vehicleType, distance, duration),
     VehicleType |-> vehicleType,
     OriginName |-> origin, DestinationName |-> destination,
     OriginLat |-> ParseLatLng(origin)[1],
     OriginLng |-> ParseLatLng(origin)[2],
     DestinationLat |-> ParseLatLng(destination)[1],
     DestinationLng |-> ParseLatLng(destination)[2]]

IdleReq == [pc |-> "idle"]

RespondError(code, message) ==
    [code |-> code, success |-> FALSE, message |-> message, data |-> <<>>]

RespondSuccess(code, message, data) ==
    [code |-> code, success |-> TRUE, message |-> message, data |-> data]

MaxStores == 2

\* POST /api/v1/user/ride/estimate.  The directions call answers with an
\* error, or with a route and the X-Request-Id header of its response
\* (the empty text when the header is missing), which becomes the routeId.
GetRideEstimate(origin, destination, vehicleType, dirErr, distance, duration, routeID) ==
    /\ Cardinality(stored) < MaxStores
    /\ IF dirErr
       THEN /\ http' = [req |-> [op |-> "GetRideEstimate", user |-> NULL,
                                 routeId |-> NULL, vehicleType |-> vehicleType],
                        resp |-> RespondError(500, "Failed to calculate route")]
            /\ UNCHANGED <<routeCache, stored>>
       ELSE LET route == PlannedRoute(origin, destination, vehicleType,
                                      "polyline", distance, duration)
            IN /\ routeCache' = StorePlannedRoute(routeCache, routeID, route)
               /\ stored' = stored \cup
                      {[token |-> routeID, quote |-> route, age |-> 0]}
               /\ http' = [req |-> [op |-> "GetRideEstimate", user |-> NULL,
                                    routeId |-> NULL,
                                    vehicleType |-> vehicleType],
                           resp |-> RespondSuccess(200, "Ride estimate",
                                       [polyline |-> "polyline",
                                        fare |-> route.Fare,
                                        routeId |-> routeID])]
    /\ UNCHANGED <<call, rt, proc, sinceBeat, driver, rides, geo, driverData, bgTasks, channel, pushes,
                   emitted, req, upd>>

----------------------------------------------------------------------------
(* Ride creation and dispatch *)

\* NewRide that takes the vehicle class from the request body.
NewRideFromBody(rideId, userID, body, cached) ==
    [id |-> rideId, userId |-> userID, driverId |-> NULL,
     charge |-> cached.Fare,
     currentLocationName |-> cached.OriginName,
     destinationLocationName |-> cached.DestinationName,
     distance |-> ToString(cached.Distance),
     routeId |-> body.RouteID,
     estimatedDuration |-> cached.Duration,
     estimatedDistance |-> cached.Distance,
     vehicleType |-> body.VehicleType,
     originLat |-> cached.OriginLat, originLng |-> cached.OriginLng,
     destinationLat |-> cached.DestinationLat,
     destinationLng |-> cached.DestinationLng,
     status |-> "Requested"]

\* The row CreateRide inserts.
NewRide(rideId, userID, body, cached) ==
    [id |-> rideId, userId |-> userID, driverId |-> NULL,
     charge |-> cached.Fare,
     currentLocationName |-> cached.OriginName,
     destinationLocationName |-> cached.DestinationName,
     distance |-> ToString(cached.Distance),
     routeId |-> body.RouteID,
     estimatedDuration |-> cached.Duration,
     estimatedDistance |-> cached.Distance,
     vehicleType |-> cached.VehicleType,
     originLat |-> cached.OriginLat, originLng |-> cached.OriginLng,
     destinationLat |-> cached.DestinationLat,
     destinationLng |-> cached.DestinationLng,
     status |-> "Requested"]

\* The eligibility query of the dispatch goroutine: the notification tokens
\* of the drivers among ids that are online, active, of the given vehicle
\* type and have a token.
EligibleTokens(ids, vehicleType) ==
    {driver[d].notificationToken : d \in
        {x \in ids \cap DOMAIN driver :
            /\ driver[x].isOnline
            /\ driver[x].status = "active"
            /\ driver[x].vehicle_type = vehicleType
            /\ driver[x].notificationToken # NULL
            /\ driver[x].notificationToken # ""}}

MarshalRideRequestEvent(event) ==
    [k \in {"rideId", "userId", "pickupLat", "pickupLon", "destination",
            "fare", "distance", "duration"} |->
        CASE k = "rideId" -> event.RideID
          [] k = "userId" -> event.UserID
          [] k = "pickupLat" -> event.PickupLat
          [] k = "pickupLon" -> event.PickupLon
          [] k = "destination" -> event.Destination
          [] k = "fare" -> event.Fare
          [] k = "distance" -> event.Distance
          [] k = "duration" -> event.Duration]

UnmarshalRideRequestEvent(val) ==
    [RideID |-> val["rideId"], UserID |-> val["userId"],
     PickupLat |-> val["pickupLat"], PickupLon |-> val["pickupLon"],
     Destination |-> val["destination"], Fare |-> val["fare"],
     Distance |-> val["distance"], Duration |-> val["duration"]]

\* PUBLISH ride_requests <event>
PublishRideRequest(ch, event) == Append(ch, MarshalRideRequestEvent(event))

\* CreateRide that runs the fan-out itself and answers when it is done.
CreateRideInline(userID, body) ==
    LET got == GetPlannedRoute(routeCache, body.RouteID)
        request == [op |-> "CreateRide", user |-> userID,
                    routeId |-> body.RouteID, vehicleType |-> body.VehicleType]
    IN IF got.err
       THEN /\ http' = [req |-> request,
                        resp |-> RespondError(410,
                          "This route has expired. Please get a fresh estimate.")]
            /\ UNCHANGED <<call, rt, proc, sinceBeat, driver, rides, routeCache, stored, geo,
                           driverData, bgTasks, channel, pushes, emitted,
                           req, upd>>
       ELSE LET cached == got.route
                rideId == Len(rides) + 1
                nearbyDrivers == GetNearbyDrivers(geo, driverData,
                                     cached.OriginLat, cached.OriginLng,
                                     DispatchRadius)
                tokens == EligibleTokens(DriverIDs(nearbyDrivers),
                                         body.VehicleType)
            IN /\ rides' = Append(rides, NewRide(rideId, userID, body, cached))
               /\ pushes' = pushes \cup
                      {[rideId |-> rideId, token |-> t] : t \in tokens}
               /\ channel' = IF Len(nearbyDrivers) = 0 THEN channel
                             ELSE PublishRideRequest(channel,
                        [RideID |-> rideId, UserID |-> userID,
                         PickupLat |-> cached.OriginLat,
                         PickupLon |-> cached.OriginLng,
                         Destination |-> cached.DestinationName,
                         Fare |-> cached.Fare,
                         Distance |-> cached.Distance,
                         Duration |-> cached.Duration])
               /\ http' = [req |-> request,
                           resp |-> RespondSuccess(201, "Ride requested",
                                       [rideId |-> rideId,
                                        nearbyDrivers |-> Len(nearbyDrivers)])]
               /\ UNCHANGED <<call, rt, proc, sinceBeat, driver, routeCache, stored, geo,
                              driverData, bgTasks, emitted, req, upd>>

\* POST /api/v1/user/ride/create
CreateRide(userID, body) ==
    LET got == GetPlannedRoute(routeCache, body.RouteID)
        request == [op |-> "CreateRide", user |-> userID,
                    routeId |-> body.RouteID, vehicleType |-> body.VehicleType]
    IN IF got.err
       THEN /\ http' = [req |-> request,
                        resp |-> RespondError(410,
                          "This route has expired. Please get a fresh estimate.")]
            /\ UNCHANGED <<call, rt, proc, sinceBeat, driver, rides, routeCache, stored, geo, driverData,
                           bgTasks, channel, pushes, emitted, req, upd>>
       ELSE \E lookupErr \in BOOLEAN :
            LET cached == got.route
                rideId == Len(rides) + 1
                nearbyDrivers == IF lookupErr THEN <<>>
                                 ELSE GetNearbyDrivers(geo, driverData,
                                          cached.OriginLat, cached.OriginLng,
                                          DispatchRadius)
            IN /\ rides' = Append(rides, NewRide(rideId, userID, body, cached))
               /\ bgTasks' = bgTasks \cup
                      {[rideId |-> rideId, userID |-> userID,
                        nearbyDrivers |-> nearbyDrivers,
                        vehicleType |-> body.VehicleType, cached |-> cached]}
               /\ http' = [req |-> request,
                           resp |-> RespondSuccess(201, "Ride requested",
                                       [rideId |-> rideId,
                                        nearbyDrivers |-> Len(nearbyDrivers)])]
               /\ UNCHANGED <<call, rt, proc, sinceBeat, driver, routeCache, stored, geo,
                              driverData, channel, pushes, emitted, req, upd>>

\* What can fail in the dispatch goroutine: the eligibility query, the push
\* delivery, the publish.
FanoutFailures == {"none", "query", "push", "publish"}

\* A dispatch goroutine whose failure replaces the response of the request
\* that started it.
BgDispatchCoupled(task) ==
    /\ task \in bgTasks
    /\ bgTasks' = bgTasks \ {task}
    /\ \E failure \in FanoutFailures :
         IF Len(task.nearbyDrivers) = 0 \/ failure = "query"
         THEN /\ UNCHANGED <<pushes, channel>>
              /\ http' = [http EXCEPT !.resp =
                     RespondError(500, "Failed to notify drivers")]
         ELSE LET tokens == EligibleTokens(DriverIDs(task.nearbyDrivers),
                                           task.vehicleType)
              IN /\ pushes' = IF failure = "push" THEN pushes
                              ELSE pushes \cup
                                   {[rideId |-> task.rideId, token |-> t] :
                                       t \in tokens}
                 /\ channel' = IF failure = "publish" THEN channel
                               ELSE PublishRideRequest(channel,
                        [RideID |-> task.rideId, UserID |-> task.userID,
                         PickupLat |-> task.cached.OriginLat,
                         PickupLon |-> task.cached.OriginLng,
                         Destination |-> task.cached.DestinationName,
                         Fare |-> task.cached.Fare,
                         Distance |-> task.cached.Distance,
                         Duration |-> task.cached.Duration])
                 /\ http' = IF failure = "none" THEN http
                            ELSE [http EXCEPT !.resp =
                                   RespondError(500,
                                       "Failed to notify drivers")]
    /\ UNCHANGED <<call, rt, proc, sinceBeat, driver, rides, routeCache, stored, geo,
                   driverData, emitted, req, upd>>

\* The goroutine CreateRide starts with SafeGo.  Its errors are logged or
\* dropped.
BgDispatch(task) ==
    /\ task \in bgTasks
    /\ bgTasks' = bgTasks \ {task}
    /\ \E failure \in FanoutFailures :
         IF Len(task.nearbyDrivers) = 0 \/ failure = "query"
         THEN UNCHANGED <<pushes, channel>>
         ELSE LET tokens == EligibleTokens(DriverIDs(task.nearbyDrivers),
                                           task.vehicleType)
              IN /\ pushes' = IF failure = "push" THEN pushes
                              ELSE pushes \cup
                                   {[rideId |-> task.rideId, token |-> t] :
                                       t \in tokens}
                 /\ channel' = IF failure = "publish" THEN channel
                               ELSE PublishRideRequest(channel,
                        [RideID |-> task.rideId, UserID |-> task.userID,
                         PickupLat |-> task.cached.OriginLat,
                         PickupLon |-> task.cached.OriginLng,
                         Destination |-> task.cached.DestinationName,
                         Fare |-> task.cached.Fare,
                         Distance |-> task.cached.Distance,
                         Duration |-> task.cached.Duration])
    /\ UNCHANGED <<call, rt, proc, sinceBeat, driver, rides, routeCache, stored, geo,
                   driverData, emitted, req, upd, http>>

----------------------------------------------------------------------------
(* Time: the store drops a key when its TTL has run out. *)

Expire(keys) ==
    [k \in {x \in DOMAIN keys : keys[x].ttl > 1} |->
        [keys[k] EXCEPT !.ttl = @ - 1]]

Tick ==
    /\ routeCache' = Expire(routeCache)
    /\ driverData' = Expire(driverData)
    /\ stored' = {[s EXCEPT !.age = IF @ >= RouteTTL THEN @ ELSE @ + 1] :
                     s \in stored}
    /\ sinceBeat' = [d \in Drivers |->
                         IF sinceBeat[d] >= DriverTTL THEN sinceBeat[d]
                         ELSE sinceBeat[d] + 1]
    /\ UNCHANGED <<call, rt, proc, driver, rides, geo, bgTasks, channel, pushes,
                   emitted, req, upd, http>>

----------------------------------------------------------------------------
(* Driver requests: the middleware, then the handler *)

\* IsAuthenticatedDriver loads the driver row into the request context; the
\* column isOnline is not among the columns it selects, so the context
\* carries the zero value of the field.
IsAuthenticatedDriver(id) ==
    IF driver[id].status = "suspended"
    THEN [abort |-> TRUE,
          resp |-> RespondError(403,
              "Your account has been suspended. Contact support."),
          ctx |-> <<>>]
    ELSE IF driver[id].status = "rejected"
    THEN [abort |-> TRUE,
          resp |-> RespondError(403,
              "Your registration was rejected. Contact support."),
          ctx |-> <<>>]
    ELSE [abort |-> FALSE, resp |-> <<>>,
          ctx |-> [ID |-> id, Status |-> driver[id].status,
                   IsOnline |-> FALSE,
                   VehicleType |-> driver[id].vehicle_type,
                   NotificationToken |-> driver[id].notificationToken]]

\* A request of driver d that starts is no longer the request that the
\* handled requests of the others were racing against.
Unrival(r, d) ==
    IF r.pc = "done" /\ r.op = "UpdatingRideStatus" /\ r.seen # <<>>
    THEN [r EXCEPT !.seen.rivals = @ \ {d}]
    ELSE r

\* A driver request passes the middleware and waits for its handler.
DriverAuth(d, op, body) ==
    /\ req[d].pc \in {"idle", "done"}
    /\ LET auth == IsAuthenticatedDriver(d)
       IN req' = [e \in Drivers |->
              IF e # d
              THEN Unrival(req[e], d)
              ELSE IF auth.abort
              THEN [pc |-> "done", op |-> op, body |-> body,
                    resp |-> auth.resp, seen |-> <<>>]
              ELSE [pc |-> "handler", op |-> op, body |-> body,
                    ctx |-> auth.ctx]]
    /\ UNCHANGED <<call, rt, proc, sinceBeat, driver, rides, routeCache, stored, geo, driverData,
                   bgTasks, channel, pushes, emitted, upd, http>>

\* PUT /api/v1/driver/toggle-online
ToggleOnline(d) ==
    /\ req[d].pc = "handler"
    /\ req[d].op = "ToggleOnline"
    /\ LET ctx == req[d].ctx
           newOnlineState == ~ctx.IsOnline
           removed == RemoveDriver(geo, driverData, d)
       IN IF ctx.Status # "active"
          THEN /\ req' = [req EXCEPT ![d] =
                     [pc |-> "done", op |-> "ToggleOnline", body |-> <<>>,
                      resp |-> RespondError(403,
                          "Your account is not approved yet. Please wait for admin verification."),
                      seen |-> <<>>]]
               /\ UNCHANGED <<driver, geo, driverData>>
          ELSE /\ driver' = [driver EXCEPT ![d].isOnline = newOnlineState]
               /\ IF newOnlineState
                  THEN UNCHANGED <<geo, driverData>>
                  ELSE geo' = removed.geo /\ driverData' = removed.data
               /\ req' = [req EXCEPT ![d] =
                     [pc |-> "done", op |-> "ToggleOnline", body |-> <<>>,
                      resp |-> RespondSuccess(200,
                          IF newOnlineState
                          THEN "You are now online and accepting rides!"
                          ELSE "You are now offline. No new rides will be dispatched.",
                          [isOnline |-> newOnlineState]),
                      seen |-> <<>>]]
    /\ UNCHANGED <<call, rt, proc, sinceBeat, rides, routeCache, stored, bgTasks, channel, pushes,
                   emitted, upd, http>>

AllowedRideStatus == {"Accepted", "InProgress", "Completed", "Cancelled"}

\* The handler with no online/approved gate whose UPDATE matches the ride
\* id alone and assigns the ride to the caller.
UpdatingRideStatusUnconditional(ctx, body, ridesTable) ==
    IF body.RideStatus \notin AllowedRideStatus
    THEN [resp |-> RespondError(400, "Invalid ride status"),
          rides |-> ridesTable]
    ELSE IF body.RideID \notin 1..Len(ridesTable)
    THEN [resp |-> RespondError(404, "Ride not found"), rides |-> ridesTable]
    ELSE [resp |-> RespondSuccess(200, "Ride status updated",
                       [id |-> body.RideID, status |-> body.RideStatus]),
          rides |-> [ridesTable EXCEPT
                        ![body.RideID].status = body.RideStatus,
                        ![body.RideID].driverId = ctx.ID]]

\* PUT /api/v1/driver/ride/status: the response, and the rides table after
\* UPDATE rides SET status=$1 WHERE id=$2 AND "driverId"=$3 (a NULL driverId
\* equals no driver).
UpdatingRideStatusResult(ctx, body, ridesTable) ==
    IF ~ctx.IsOnline \/ ctx.Status # "active"
    THEN [resp |-> RespondError(403,
              "You must be online and approved to manage rides."),
          rides |-> ridesTable]
    ELSE IF body.RideStatus \notin AllowedRideStatus
    THEN [resp |-> RespondError(400, "Invalid ride status"),
          rides |-> ridesTable]
    ELSE IF body.RideID \notin 1..Len(ridesTable)
    THEN [resp |-> RespondError(404, "Ride not found"), rides |-> ridesTable]
    ELSE IF ridesTable[body.RideID].driverId # ctx.ID
    THEN [resp |-> RespondError(400, "Failed to update ride"),
          rides |-> ridesTable]
    ELSE [resp |-> RespondSuccess(200, "Ride status updated",
                       [id |-> body.RideID, status |-> body.RideStatus]),
          rides |-> [ridesTable EXCEPT
                        ![body.RideID].status = body.RideStatus]]

\* What the system of record held when a ride status request was handled,
\* and which other drivers had the same request waiting for its handler.
Seen(d, body) ==
    [rideStatus |-> IF body.RideID \in 1..Len(rides)
                    THEN rides[body.RideID].status ELSE NULL,
     isOnline |-> driver[d].isOnline,
     status |-> driver[d].status,
     rivals |-> {e \in Drivers \ {d} :
                    /\ req[e].pc = "handler"
                    /\ req[e].op = "UpdatingRideStatus"
                    /\ req[e].body = body}]

UpdatingRideStatus(d) ==
    /\ req[d].pc = "handler"
    /\ req[d].op = "UpdatingRideStatus"
    /\ LET out == UpdatingRideStatusResult(req[d].ctx, req[d].body, rides)
       IN /\ rides' = out.rides
          /\ req' = [req EXCEPT ![d] =
                 [pc |-> "done", op |-> "UpdatingRideStatus",
                  body |-> req[d].body, resp |-> out.resp,
                  seen |-> Seen(d, req[d].body)]]
    /\ UNCHANGED <<call, rt, proc, sinceBeat, driver, routeCache, stored, geo, driverData, bgTasks,
                   channel, pushes, emitted, upd, http>>

\* Another call wrote or removed the index entry of driverID while a call
\* was between its two store commands.
Disturb(u, driverID, except) ==
    [s \in DOMAIN u |->
        IF s # except /\ u[s].pc = "set" /\ u[s].driverId = driverID
        THEN [u[s] EXCEPT !.clean = FALSE]
        ELSE u[s]]

\* PUT /api/v1/admin/driver/:id/status
AdminUpdateDriverStatus(driverID, status) ==
    /\ IF status \in {"inactive", "suspended", "rejected", "pending"}
       THEN LET removed == RemoveDriver(geo, driverData, driverID)
            IN /\ driver' = [driver EXCEPT ![driverID].status = status,
                                           ![driverID].isOnline = FALSE]
               /\ geo' = removed.geo
               /\ driverData' = removed.data
               /\ upd' = Disturb(upd, driverID, NULL)
       ELSE /\ driver' = [driver EXCEPT ![driverID].status = status]
            /\ UNCHANGED <<geo, driverData, upd>>
    /\ UNCHANGED <<call, rt, proc, sinceBeat, rides, routeCache, stored, bgTasks, channel, pushes,
                   emitted, req, http>>

\* POST /api/v1/driver/auth/logout
DriverLogout(d) ==
    /\ req[d].pc = "handler"
    /\ req[d].op = "DriverLogout"
    /\ LET removed == RemoveDriver(geo, driverData, d)
       IN /\ driver' = [driver EXCEPT ![d].notificationToken = NULL,
                                      ![d].status = "inactive"]
          /\ geo' = removed.geo
          /\ driverData' = removed.data
          /\ upd' = Disturb(upd, d, NULL)
    /\ req' = [req EXCEPT ![d] =
           [pc |-> "done", op |-> "DriverLogout", body |-> <<>>,
            resp |-> RespondSuccess(200, "Logged out successfully", <<>>),
            seen |-> <<>>]]
    /\ UNCHANGED <<call, rt, proc, sinceBeat, rides, routeCache, stored, bgTasks, channel,
                   pushes, emitted, http>>

\* PUT /api/v1/driver/status
UpdateDriverStatus(d) ==
    /\ req[d].pc = "handler"
    /\ req[d].op = "UpdateDriverStatus"
    /\ LET body == req[d].body
           removed == RemoveDriver(geo, driverData, d)
       IN IF body.Status = ""
          THEN /\ req' = [req EXCEPT ![d] =
                     [pc |-> "done", op |-> "UpdateDriverStatus",
                      body |-> body,
                      resp |-> RespondError(400, "Invalid request"),
                      seen |-> <<>>]]
               /\ UNCHANGED <<driver, geo, driverData, upd>>
          ELSE IF body.Status \notin {"active", "inactive", "busy"}
          THEN /\ req' = [req EXCEPT ![d] =
                     [pc |-> "done", op |-> "UpdateDriverStatus",
                      body |-> body,
                      resp |-> RespondError(400,
                          "Invalid status. Use: active, inactive, busy"),
                      seen |-> <<>>]]
               /\ UNCHANGED <<driver, geo, driverData, upd>>
          ELSE /\ driver' = [driver EXCEPT ![d].status = body.Status]
               /\ IF body.Status = "inactive"
                  THEN /\ geo' = removed.geo
                       /\ driverData' = removed.data
                       /\ upd' = Disturb(upd, d, NULL)
                  ELSE UNCHANGED <<geo, driverData, upd>>
               /\ req' = [req EXCEPT ![d] =
                     [pc |-> "done", op |-> "UpdateDriverStatus",
                      body |-> body,
                      resp |-> RespondSuccess(200, "Status updated",
                                  [driver |-> driver'[d]]),
                      seen |-> <<>>]]
    /\ UNCHANGED <<call, rt, proc, sinceBeat, rides, routeCache, stored,
                   bgTasks, channel, pushes, emitted, http>>

\* The point SnapToRoad answers with when the upstream call succeeds.
SnappedPoint == <<2, 2>>

\* PUT /api/v1/driver/location.  snapErr: the upstream snap call failed;
\* storeDown: the store refuses its commands.  The handler drops the result
\* of UpdateDriverLocation and answers 200.
UpdateDriverLocationHandler(d, snapErr, storeDown) ==
    /\ req[d].pc = "handler"
    /\ req[d].op = "UpdateDriverLocation"
    /\ LET body == req[d].body
           final == IF snapErr THEN <<body.Lat, body.Lng>> ELSE SnappedPoint
           added == IF storeDown
                    THEN [err |-> TRUE, geo |-> geo]
                    ELSE GeoAdd(geo, d, final[2], final[1])
       IN IF body.Lat = 0 \/ body.Lng = 0
          THEN /\ req' = [req EXCEPT ![d] =
                     [pc |-> "done", op |-> "UpdateDriverLocation",
                      body |-> body,
                      resp |-> RespondError(400, "Invalid request"),
                      seen |-> <<>>]]
               /\ UNCHANGED <<geo, driverData, upd, sinceBeat>>
          ELSE /\ IF added.err
                  THEN UNCHANGED <<geo, driverData, upd, sinceBeat>>
                  ELSE /\ geo' = added.geo
                       /\ driverData' = SetDriverData(driverData, d,
                                            final[1], final[2], "")
                       /\ upd' = Disturb(upd, d, NULL)
                       /\ sinceBeat' = [sinceBeat EXCEPT ![d] = 0]
               /\ req' = [req EXCEPT ![d] =
                     [pc |-> "done", op |-> "UpdateDriverLocation",
                      body |-> body,
                      resp |-> RespondSuccess(200, "Location updated", <<>>),
                      seen |-> <<>>]]
    /\ UNCHANGED <<call, rt, proc, driver, rides, routeCache, stored, bgTasks, channel,
                   pushes, emitted, http>>

\* POST /api/v1/user/ride/cancel
CancelRide(body) ==
    /\ IF body.RideID \in 1..Len(rides)
       THEN /\ rides' = [rides EXCEPT ![body.RideID].status = "Cancelled"]
            /\ http' = [req |-> [op |-> "CancelRide", user |-> NULL,
                                 routeId |-> NULL, vehicleType |-> NULL],
                        resp |-> RespondSuccess(200, "Ride cancelled", <<>>)]
       ELSE /\ UNCHANGED rides
            /\ http' = [req |-> [op |-> "CancelRide", user |-> NULL,
                                 routeId |-> NULL, vehicleType |-> NULL],
                        resp |-> RespondError(500, "Failed to cancel ride")]
    /\ UNCHANGED <<call, rt, proc, sinceBeat, driver, routeCache, stored, geo, driverData, bgTasks,
                   channel, pushes, emitted, req, upd>>

----------------------------------------------------------------------------
(* Realtime channel: sockets, rooms and the events of a socket *)

RiderSockets == {"r1"}
AllSockets == Sockets \cup RiderSockets

\* The user whose client opened the socket.
UserOf == [s \in RiderSockets |-> "u1"]

DriverRoom(id) == "driver:" \o id

\* The realtime server after InitSocketIO: no socket is in a room, nothing
\* has been delivered, the subscriber goroutine runs and has logged nothing.
NoRealtime == [rooms |-> [s \in AllSockets |-> {}], riders |-> {},
               got |-> {}, relayed |-> {}, sub |-> "running",
               dispatchLog |-> <<>>]


\* socket.Join: the socket becomes a member of the room.
Join(r, sock, room) == [r EXCEPT !.rooms[sock] = @ \cup {room}]

\* The sockets an event emitted to the room is delivered to.
Members(r, room) == {s \in AllSockets : room \in r.rooms[s]}

\* io.To(room).Emit(event, ...): every member of the room gets the event.
Emit(r, room, event, rideId, driverId) ==
    [r EXCEPT !.got = @ \cup
        {[sock |-> s, event |-> event, room |-> room, rideId |-> rideId,
          driverId |-> driverId] : s \in Members(r, room)}]

\* The rest of the locationUpdate handler once UpdateDriverLocation has
\* returned, with or without an error: join the driver room and, when the
\* message names a user, emit rideUpdate to the room of that name.
JoinAndRelay(r, sock, driverId, userId) ==
    LET joined == Join(r, sock, DriverRoom(driverId))
    IN IF userId # ""
       THEN [Emit(joined, userId, "rideUpdate", 0, driverId)
                EXCEPT !.relayed = @ \cup
                           {[driverId |-> driverId, room |-> userId]}]
       ELSE joined

\* locationUpdate, up to the first store command of UpdateDriverLocation
\* (GEOADD); an error of GEOADD is logged and ends the store call.
LocationUpdate(sock, data) ==
    /\ upd[sock].pc = "idle"
    /\ data.role = "driver"
    /\ data.driverId # ""
    /\ LET added == GeoAdd(geo, data.driverId, data.longitude, data.latitude)
       IN IF added.err
          THEN /\ UNCHANGED <<geo, upd>>
               /\ rt' = JoinAndRelay(rt, sock, data.driverId, data.userId)
          ELSE /\ geo' = added.geo
               /\ upd' = [Disturb(upd, data.driverId, sock) EXCEPT ![sock] =
                     [pc |-> "set", driverId |-> data.driverId,
                      lat |-> data.latitude, lon |-> data.longitude,
                      userId |-> data.userId, clean |-> TRUE]]
               /\ UNCHANGED rt
    /\ UNCHANGED <<call, proc, sinceBeat, driver, rides, routeCache, stored,
                   driverData, bgTasks, channel, pushes, emitted, req, http>>

\* The second store command of UpdateDriverLocation (SET with the TTL) and
\* the rest of the handler.
LocationUpdateSet(sock) ==
    /\ upd[sock].pc = "set"
    /\ driverData' = SetDriverData(driverData, upd[sock].driverId,
                                   upd[sock].lat, upd[sock].lon, sock)
    /\ upd' = [upd EXCEPT ![sock] = IdleReq]
    /\ sinceBeat' = [sinceBeat EXCEPT ![upd[sock].driverId] = 0]
    /\ rt' = JoinAndRelay(rt, sock, upd[sock].driverId, upd[sock].userId)
    /\ UNCHANGED <<call, proc, driver, rides, routeCache, stored, geo, bgTasks,
                   channel, pushes, emitted, req, http>>

\* joinUserRoom: the socket joins the room the message names.
JoinUserRoom(sock, data) ==
    /\ sock \in rt.riders
    /\ rt' = IF data.userId # "" THEN Join(rt, sock, data.userId) ELSE rt
    /\ UNCHANGED <<call, proc, sinceBeat, driver, rides, routeCache, stored, geo,
                   driverData, bgTasks, channel, pushes, emitted, req, upd,
                   http>>

\* A rider's client opens a socket: the connection handler registers the
\* events.
RiderConnect(sock) ==
    /\ sock \in RiderSockets \ rt.riders
    /\ rt' = [rt EXCEPT !.riders = @ \cup {sock}]
    /\ UNCHANGED <<call, proc, sinceBeat, driver, rides, routeCache, stored, geo,
                   driverData, bgTasks, channel, pushes, emitted, req, upd,
                   http>>

\* The disconnect event of a rider's socket; the server takes a closed
\* socket out of its rooms.
RiderDisconnect(sock) ==
    /\ sock \in rt.riders
    /\ rt' = [rt EXCEPT !.riders = @ \ {sock}, !.rooms[sock] = {}]
    /\ UNCHANGED <<call, proc, sinceBeat, driver, rides, routeCache, stored, geo,
                   driverData, bgTasks, channel, pushes, emitted, req, upd,
                   http>>

\* A client opens a socket: the connection handler registers the events.
Connect(sock) ==
    /\ upd[sock].pc = "closed"
    /\ upd' = [upd EXCEPT ![sock] = IdleReq]
    /\ UNCHANGED <<call, rt, proc, sinceBeat, driver, rides, routeCache, stored, geo,
                   driverData, bgTasks, channel, pushes, emitted, req, http>>

\* The disconnect event of a socket: the handler writes a log line; the
\* server takes a closed socket out of its rooms.
Disconnect(sock) ==
    /\ upd[sock].pc = "idle"
    /\ upd' = [upd EXCEPT ![sock] = [pc |-> "closed"]]
    /\ rt' = [rt EXCEPT !.rooms[sock] = {}]
    /\ UNCHANGED <<call, proc, sinceBeat, driver, rides, routeCache, stored, geo,
                   driverData, bgTasks, channel, pushes, emitted, req, http>>

\* A payload on ride_requests that is not the JSON of an object, and the
\* test json.Unmarshal makes of it.
Malformed == [k \in {"<not json>"} |-> TRUE]
ValidJSON(val) == "<not json>" \notin DOMAIN val

\* Some other client of the store publishes on ride_requests.
PublishForeign ==
    /\ Len(channel) + Len(rt.dispatchLog) < MaxQueued
    /\ channel' = Append(channel, Malformed)
    /\ UNCHANGED <<call, rt, proc, sinceBeat, driver, rides, routeCache,
                   stored, geo, driverData, bgTasks, pushes, emitted, req,
                   upd, http>>

\* The lines the subscriber loop writes to the log.
LogError(r, msg) ==
    [r EXCEPT !.dispatchLog =
        Append(@, [level |-> "error", msg |-> msg, rideId |-> 0])]
LogDispatch(r, rideId) ==
    [r EXCEPT !.dispatchLog =
        Append(@, [level |-> "info", msg |-> "Dispatching ride",
                   rideId |-> rideId])]

\* newRide emitted to the driver room of each driver of the list.
EmitNewRide(r, ids, rideId) ==
    [r EXCEPT !.got = @ \cup
        {[sock |-> x[2], event |-> "newRide", room |-> DriverRoom(x[1]),
          rideId |-> rideId, driverId |-> NULL] :
            x \in {y \in ids \X AllSockets :
                      y[2] \in Members(r, DriverRoom(y[1]))}}]

\* A subscriber loop that ends at the first message it cannot dispatch.
DispatchRideRequestStops ==
    /\ rt.sub = "running"
    /\ channel # <<>>
    /\ channel' = Tail(channel)
    /\ IF ~ValidJSON(Head(channel))
       THEN /\ rt' = [LogError(rt, "Error unmarshalling ride request")
                         EXCEPT !.sub = "stopped"]
            /\ UNCHANGED emitted
       ELSE \E lookupErr \in BOOLEAN :
            IF lookupErr
            THEN /\ rt' = [LogError(rt, "Error finding drivers for dispatch")
                              EXCEPT !.sub = "stopped"]
                 /\ UNCHANGED emitted
            ELSE LET event == UnmarshalRideRequestEvent(Head(channel))
                     drivers == GetNearbyDrivers(geo, driverData,
                                    event.PickupLat, event.PickupLon,
                                    DispatchRadius)
                 IN /\ emitted' = emitted \cup
                           {[event |-> "newRide", room |-> DriverRoom(id),
                             rideId |-> event.RideID] :
                               id \in DriverIDs(drivers)}
                    /\ rt' = EmitNewRide(LogDispatch(rt, event.RideID),
                                         DriverIDs(drivers), event.RideID)
    /\ UNCHANGED <<call, proc, sinceBeat, driver, rides, routeCache, stored,
                   geo, driverData, bgTasks, pushes, req, upd, http>>

\* One turn of the subscriber loop of InitSocketIO: take a message of
\* ride_requests; a payload that does not parse and a failed lookup are
\* logged and the loop goes on; otherwise look the nearby drivers up again
\* and emit newRide to the room of each.
DispatchRideRequest ==
    /\ rt.sub = "running"
    /\ channel # <<>>
    /\ channel' = Tail(channel)
    /\ IF ~ValidJSON(Head(channel))
       THEN /\ rt' = LogError(rt, "Error unmarshalling ride request")
            /\ UNCHANGED emitted
       ELSE \E lookupErr \in BOOLEAN :
            IF lookupErr
            THEN /\ rt' = LogError(rt, "Error finding drivers for dispatch")
                 /\ UNCHANGED emitted
            ELSE LET event == UnmarshalRideRequestEvent(Head(channel))
                     drivers == GetNearbyDrivers(geo, driverData,
                                    event.PickupLat, event.PickupLon,
                                    DispatchRadius)
                 IN /\ emitted' = emitted \cup
                           {[event |-> "newRide", room |-> DriverRoom(id),
                             rideId |-> event.RideID] :
                               id \in DriverIDs(drivers)}
                    /\ rt' = EmitNewRide(LogDispatch(rt, event.RideID),
                                         DriverIDs(drivers), event.RideID)
    /\ UNCHANGED <<call, proc, sinceBeat, driver, rides, routeCache, stored,
                   geo, driverData, bgTasks, pushes, req, upd, http>>

----------------------------------------------------------------------------
(* TimeoutMiddleware: the rest of the handler chain runs in a goroutine of *)
(* its own while the middleware waits for it or for the deadline of the    *)
(* request context.  The timer is counted in seconds.                      *)

Requests == {"q1", "q2"}

NoCall == [pc |-> "idle", timer |-> RequestTimeout, handler |-> "none",
           written |-> <<>>]

HandlerResponse == RespondSuccess(200, "OK", <<>>)
TimeoutResponse == RespondError(504, "Request timed out")

\* What a write to the response does once the middleware has returned and
\* the server has finished the response.
LateWrites == {"lost", "appended"}

\* A request enters the middleware: the context gets its deadline and the
\* goroutine that calls c.Next() starts.
Arrive(q) ==
    /\ call[q].pc = "idle"
    /\ call' = [call EXCEPT ![q] = [pc |-> "waiting",
                                    timer |-> RequestTimeout,
                                    handler |-> "running",
                                    written |-> <<>>]]
    /\ UNCHANGED <<rt, proc, sinceBeat, driver, rides, routeCache, stored,
                   geo, driverData, bgTasks, channel, pushes, emitted, req,
                   upd, http>>

\* One second passes while the middleware waits in its select.
TimeoutTick(q) ==
    /\ call[q].pc = "waiting"
    /\ call[q].timer > 0
    /\ call' = [call EXCEPT ![q].timer = @ - 1]
    /\ UNCHANGED <<rt, proc, sinceBeat, driver, rides, routeCache, stored,
                   geo, driverData, bgTasks, channel, pushes, emitted, req,
                   upd, http>>

\* The handler, in its goroutine, writes its response.
HandlerWrite(q) ==
    /\ call[q].handler = "running"
    /\ \E outcome \in LateWrites :
          call' = [call EXCEPT ![q].handler = "written",
                               ![q].written =
                                   IF call[q].pc = "waiting"
                                      \/ outcome = "appended"
                                   THEN Append(@, HandlerResponse)
                                   ELSE @]
    /\ UNCHANGED <<rt, proc, sinceBeat, driver, rides, routeCache, stored,
                   geo, driverData, bgTasks, channel, pushes, emitted, req,
                   upd, http>>

\* c.Next() returns in the goroutine, which closes done.
HandlerReturn(q) ==
    /\ call[q].handler = "written"
    /\ call' = [call EXCEPT ![q].handler = "returned"]
    /\ UNCHANGED <<rt, proc, sinceBeat, driver, rides, routeCache, stored,
                   geo, driverData, bgTasks, channel, pushes, emitted, req,
                   upd, http>>

\* The select of the middleware takes the case of done.
MiddlewareDone(q) ==
    /\ call[q].pc = "waiting"
    /\ call[q].handler = "returned"
    /\ call' = [call EXCEPT ![q].pc = "done"]
    /\ UNCHANGED <<rt, proc, sinceBeat, driver, rides, routeCache, stored,
                   geo, driverData, bgTasks, channel, pushes, emitted, req,
                   upd, http>>

\* The select of the middleware takes the case of ctx.Done(): it writes
\* the timeout error, aborts the chain and returns.
MiddlewareTimeout(q) ==
    /\ call[q].pc = "waiting"
    /\ call[q].timer = 0
    /\ call' = [call EXCEPT ![q].pc = "timedout",
                            ![q].written = Append(@, TimeoutResponse)]
    /\ UNCHANGED <<rt, proc, sinceBeat, driver, rides, routeCache, stored,
                   geo, driverData, bgTasks, channel, pushes, emitted, req,
                   upd, http>>

----------------------------------------------------------------------------
(* Process shutdown.  The grace period is counted in seconds. *)

Serving == [phase |-> "serving", timer |-> GracePeriod, outcome |-> NULL]

\* main after the signal, when srv.Shutdown has returned without error: no
\* handler runs any more and WaitForBackgroundTasks starts its timer.
Shutdown ==
    /\ proc.phase = "serving"
    /\ proc' = [proc EXCEPT !.phase = "waiting"]
    /\ UNCHANGED <<call, rt, sinceBeat, driver, rides, routeCache, stored, geo,
                   driverData, bgTasks, channel, pushes, emitted, req, upd,
                   http>>

\* main after the signal, when srv.Shutdown has run into its deadline:
\* log.Fatalf ends the process.
ShutdownForced ==
    /\ proc.phase = "serving"
    /\ proc' = [proc EXCEPT !.phase = "exited", !.outcome = "fatal"]
    /\ UNCHANGED <<call, rt, sinceBeat, driver, rides, routeCache, stored, geo,
                   driverData, bgTasks, channel, pushes, emitted, req, upd,
                   http>>

\* One second of the grace period passes.
GraceTick ==
    /\ proc.phase = "waiting"
    /\ proc.timer > 0
    /\ proc' = [proc EXCEPT !.timer = @ - 1]
    /\ UNCHANGED <<call, rt, sinceBeat, driver, rides, routeCache, stored, geo,
                   driverData, bgTasks, channel, pushes, emitted, req, upd,
                   http>>

\* WaitForBackgroundTasks: GlobalWaitGroup.Wait() has returned, the channel
\* is closed and select takes that case.
WaitDone ==
    /\ proc.phase = "waiting"
    /\ bgTasks = {}
    /\ proc' = [proc EXCEPT !.phase = "exited", !.outcome = "completed"]
    /\ UNCHANGED <<call, rt, sinceBeat, driver, rides, routeCache, stored, geo,
                   driverData, bgTasks, channel, pushes, emitted, req, upd,
                   http>>

\* WaitForBackgroundTasks without the timer case of its select.
WaitTimeoutNever ==
    /\ FALSE
    /\ UNCHANGED vars

\* WaitForBackgroundTasks: the timer has fired and select takes that case.
WaitTimeout ==
    /\ proc.phase = "waiting"
    /\ proc.timer = 0
    /\ proc' = [proc EXCEPT !.phase = "exited", !.outcome = "timeout"]
    /\ UNCHANGED <<call, rt, sinceBeat, driver, rides, routeCache, stored, geo,
                   driverData, bgTasks, channel, pushes, emitted, req, upd,
                   http>>

----------------------------------------------------------------------------
(* Specification of the route cache and the booking that redeems it. *)

NoRequest == [req |-> [op |-> "none", user |-> NULL, routeId |-> NULL,
                       vehicleType |-> NULL],
              resp |-> RespondSuccess(0, "", <<>>)]

InitDriverTable ==
    [d \in Drivers |->
        [status |-> "active", isOnline |-> FALSE,
         vehicle_type |-> IF d = "d1" THEN "Car" ELSE "Auto",
         notificationToken |-> "fcm:" \o d]]

InitRoute ==
    /\ driver = InitDriverTable
    /\ rides = <<>>
    /\ routeCache = <<>>
    /\ stored = {}
    /\ geo = <<>>
    /\ driverData = <<>>
    /\ bgTasks = {}
    /\ channel = <<>>
    /\ pushes = {}
    /\ emitted = {}
    /\ req = [d \in Drivers |-> IdleReq]
    /\ upd = [s \in Sockets |-> IdleReq]
    /\ http = NoRequest
    /\ sinceBeat = [d \in Drivers |-> DriverTTL]
    /\ proc = Serving
    /\ call = [q \in Requests |-> NoCall]
    /\ rt = NoRealtime

NextRoute ==
    \/ \E o \in Origins, dst \in Destinations, vt \in VehicleTypes,
          dirErr \in BOOLEAN, dist \in Distances, dur \in Durations,
          rid \in RouteIDs :
          GetRideEstimate(o, dst, vt, dirErr, dist, dur, rid)
    \/ \E u \in Users, rid \in RouteIDs, vt \in VehicleTypes :
          /\ Len(rides) < MaxRides
          /\ CreateRide(u, [RouteID |-> rid, VehicleType |-> vt])
    \/ Tick

SpecRoute == InitRoute /\ [][NextRoute]_vars

----------------------------------------------------------------------------
(* Specification of dispatch and of the ride status transition: a quote is *)
(* cached and two drivers have sent their positions; drivers go online,    *)
(* riders book and cancel, the dispatcher notifies, drivers answer.        *)

SocketOf == [d \in Drivers |-> IF d = "d1" THEN "s1" ELSE "s2"]

\* Where the drivers are when the specification starts.
DriverSpot == [d \in Drivers |-> IF d = "d1" THEN <<1, 2>> ELSE <<2, 3>>]

InitGeo ==
    GeoAdd(GeoAdd(<<>>, "d1", DriverSpot["d1"][2], DriverSpot["d1"][1]).geo,
           "d2", DriverSpot["d2"][2], DriverSpot["d2"][1]).geo

InitDriverData ==
    SetDriverData(SetDriverData(<<>>, "d1", DriverSpot["d1"][1],
                                DriverSpot["d1"][2], SocketOf["d1"]),
                  "d2", DriverSpot["d2"][1], DriverSpot["d2"][2],
                  SocketOf["d2"])

\* The sockets the drivers sent their positions on are in the driver rooms.
InitRealtime ==
    [NoRealtime EXCEPT !.rooms =
        [s \in AllSockets |->
            {DriverRoom(d) : d \in {x \in Drivers : SocketOf[x] = s}}]]

RideStatusInputs == {"Accepted"}

InitQuote == PlannedRoute(<<"1", "2">>, <<"9", "9">>, "Car", "polyline",
                          3000, 600)

Init ==
    /\ driver = InitDriverTable
    /\ rides = <<>>
    /\ routeCache = StorePlannedRoute(<<>>, "req-1", InitQuote)
    /\ stored = {[token |-> "req-1", quote |-> InitQuote, age |-> 0]}
    /\ geo = InitGeo
    /\ driverData = InitDriverData
    /\ bgTasks = {}
    /\ channel = <<>>
    /\ pushes = {}
    /\ emitted = {}
    /\ req = [d \in Drivers |-> IdleReq]
    /\ upd = [s \in Sockets |-> IdleReq]
    /\ http = NoRequest
    /\ sinceBeat = [d \in Drivers |-> 0]
    /\ proc = Serving
    /\ call = [q \in Requests |-> NoCall]
    /\ rt = InitRealtime

Next ==
    \/ \E d \in Drivers : DriverAuth(d, "ToggleOnline", <<>>)
    \/ \E d \in Drivers, id \in 1..Len(rides), st \in RideStatusInputs :
          DriverAuth(d, "UpdatingRideStatus",
                     [RideID |-> id, RideStatus |-> st])
    \/ \E d \in Drivers : ToggleOnline(d)
    \/ \E d \in Drivers : UpdatingRideStatus(d)
    \/ \E u \in Users, rid \in RouteIDs, vt \in VehicleTypes :
          /\ Len(rides) < MaxBooked
          /\ CreateRide(u, [RouteID |-> rid, VehicleType |-> vt])
    \/ \E id \in 1..Len(rides) : CancelRide([RideID |-> id])
    \/ \E task \in bgTasks : BgDispatch(task)
    \/ DispatchRideRequest

Spec == Init /\ [][Next]_vars

----------------------------------------------------------------------------
(* Specification of the geospatial index: any socket reports positions for *)
(* any driver, an admin suspends and restores drivers.                      *)

Points == {<<0, 0>>, <<2, 2>>, <<1, 20>>, <<MaxLat + 1, 2>>}
AdminStatusInputs == {"active", "suspended"}

NextGeo ==
    \/ \E sock \in Sockets, d \in Drivers, p \in Points :
          LocationUpdate(sock, [role |-> "driver", driverId |-> d, userId |-> "",
                                latitude |-> p[1], longitude |-> p[2]])
    \/ \E sock \in Sockets : LocationUpdateSet(sock)
    \/ \E d \in Drivers, st \in AdminStatusInputs :
          AdminUpdateDriverStatus(d, st)

SpecGeo == InitRoute /\ [][NextGeo]_vars

----------------------------------------------------------------------------
(* Specification of position expiry: each driver reports positions on its  *)
(* own socket, and time passes.                                            *)

BeatPoints == {<<0, 0>>, <<1, 20>>, <<MaxLat + 1, 2>>}

NextExpiry ==
    \/ \E d \in Drivers, p \in BeatPoints :
          LocationUpdate(SocketOf[d],
                         [role |-> "driver", driverId |-> d, userId |-> "",
                          latitude |-> p[1], longitude |-> p[2]])
    \/ \E sock \in Sockets : LocationUpdateSet(sock)
    \/ Tick

SpecExpiry == InitRoute /\ [][NextExpiry]_vars

----------------------------------------------------------------------------
(* Specification of drivers becoming unavailable: two positioned drivers   *)
(* toggle their online state and log out, an admin changes their status.   *)

UnavailableStatusInputs == {"active", "suspended", "rejected"}

NextOffline ==
    \/ \E d \in Drivers, op \in {"ToggleOnline", "DriverLogout"} :
          DriverAuth(d, op, <<>>)
    \/ \E d \in Drivers : ToggleOnline(d)
    \/ \E d \in Drivers : DriverLogout(d)
    \/ \E d \in Drivers, st \in UnavailableStatusInputs :
          AdminUpdateDriverStatus(d, st)

SpecOffline == Init /\ [][NextOffline]_vars

----------------------------------------------------------------------------
(* Specification of realtime sessions: each driver reports positions on    *)
(* its own socket, which disconnects and connects again.                   *)

NextSession ==
    \/ \E d \in Drivers, p \in BeatPoints :
          LocationUpdate(SocketOf[d],
                         [role |-> "driver", driverId |-> d, userId |-> "",
                          latitude |-> p[1], longitude |-> p[2]])
    \/ \E sock \in Sockets : LocationUpdateSet(sock)
    \/ \E sock \in Sockets : Disconnect(sock)
    \/ \E sock \in Sockets : Connect(sock)
    \/ Tick

SpecSession == InitRoute /\ [][NextSession]_vars

----------------------------------------------------------------------------
(* Specification of the position heartbeat: drivers report positions over  *)
(* HTTP and over their socket; the snap call and the store may fail.       *)

HeartbeatPoints == {<<1, 20>>, <<0, 3>>, <<MaxLat + 1, 2>>}

NextHeartbeat ==
    \/ \E d \in Drivers, p \in HeartbeatPoints :
          DriverAuth(d, "UpdateDriverLocation", [Lat |-> p[1], Lng |-> p[2]])
    \/ \E d \in Drivers, snapErr \in BOOLEAN, storeDown \in BOOLEAN :
          UpdateDriverLocationHandler(d, snapErr, storeDown)
    \/ \E d \in Drivers, p \in HeartbeatPoints :
          LocationUpdate(SocketOf[d],
                         [role |-> "driver", driverId |-> d, userId |-> "",
                          latitude |-> p[1], longitude |-> p[2]])
    \/ \E sock \in Sockets : LocationUpdateSet(sock)

SpecHeartbeat == InitRoute /\ [][NextHeartbeat]_vars

----------------------------------------------------------------------------
(* Specification of shutdown: riders book while the process serves, the    *)
(* dispatch goroutines run until the process has exited, and the process   *)
(* is told to stop.  The runtime fires the timer and wakes the select.     *)

NextShutdown ==
    \/ \E u \in Users, vt \in VehicleTypes :
          /\ proc.phase = "serving"
          /\ Len(rides) < MaxRides
          /\ CreateRide(u, [RouteID |-> "req-1", VehicleType |-> vt])
    \/ \E task \in bgTasks : proc.phase # "exited" /\ BgDispatch(task)
    \/ Shutdown
    \/ ShutdownForced
    \/ GraceTick
    \/ WaitDone
    \/ WaitTimeout

SpecShutdown ==
    /\ Init
    /\ [][NextShutdown]_vars
    /\ WF_vars(GraceTick)
    /\ WF_vars(WaitTimeout)
    /\ WF_vars(WaitDone)

----------------------------------------------------------------------------
(* Specification of the realtime sessions of riders and drivers: sockets   *)
(* connect, join rooms and disconnect, and drivers report positions that   *)
(* may name a rider.  No ride has a driver: no handler assigns one.        *)

RelayPoints == {<<0, 0>>, <<MaxLat + 1, 2>>}
RelayUsers == {"", "u1"}

NextRealtime ==
    \/ \E sock \in Sockets : Connect(sock)
    \/ \E sock \in Sockets : Disconnect(sock)
    \/ \E sock \in RiderSockets : RiderConnect(sock)
    \/ \E sock \in RiderSockets, u \in RelayUsers :
          JoinUserRoom(sock, [userId |-> u])
    \/ \E sock \in RiderSockets : RiderDisconnect(sock)
    \/ \E d \in Drivers, p \in RelayPoints, u \in RelayUsers :
          LocationUpdate(SocketOf[d],
                         [role |-> "driver", driverId |-> d, userId |-> u,
                          latitude |-> p[1], longitude |-> p[2]])
    \/ \E sock \in Sockets : LocationUpdateSet(sock)

SpecRealtime == InitRoute /\ [][NextRealtime]_vars

----------------------------------------------------------------------------
(* Specification of the request timeout: requests arrive, their handlers   *)
(* take any time to answer, the deadline passes.                           *)

NextTimeout ==
    \/ \E q \in Requests : Arrive(q)
    \/ \E q \in Requests : TimeoutTick(q)
    \/ \E q \in Requests : HandlerWrite(q)
    \/ \E q \in Requests : HandlerReturn(q)
    \/ \E q \in Requests : MiddlewareDone(q)
    \/ \E q \in Requests : MiddlewareTimeout(q)

SpecTimeout == InitRoute /\ [][NextTimeout]_vars

----------------------------------------------------------------------------
(* Specification of the dispatcher: riders book, the dispatch goroutines   *)
(* publish, other clients publish payloads that do not parse, and the      *)
(* subscriber loop, which the runtime keeps scheduling, takes the messages.*)

NextDispatch ==
    \/ \E u \in Users, vt \in VehicleTypes :
          /\ Len(rides) < MaxRides
          /\ CreateRide(u, [RouteID |-> "req-1", VehicleType |-> vt])
    \/ \E task \in bgTasks : BgDispatch(task)
    \/ PublishForeign
    \/ DispatchRideRequest

\* The turn of the subscriber loop as the scheduler sees it: the loop runs
\* and takes the next message off the channel.
SubscriberTakes ==
    /\ rt.sub = "running"
    /\ channel # <<>>
    /\ channel' = Tail(channel)

SpecDispatch ==
    /\ Init
    /\ [][NextDispatch]_vars
    /\ WF_channel(SubscriberTakes)

----------------------------------------------------------------------------
(* Specification of the driver records: drivers toggle, set their status   *)
(* and log out; an admin sets the status of a driver.                      *)

DriverStatusInputs == {"", "busy", "inactive", "offline"}

NextStatus ==
    \/ \E d \in Drivers, op \in {"ToggleOnline", "DriverLogout"} :
          DriverAuth(d, op, <<>>)
    \/ \E d \in Drivers, st \in DriverStatusInputs :
          DriverAuth(d, "UpdateDriverStatus", [Status |-> st])
    \/ \E d \in Drivers : ToggleOnline(d)
    \/ \E d \in Drivers : UpdateDriverStatus(d)
    \/ \E d \in Drivers : DriverLogout(d)
    \/ \E d \in Drivers, st \in AdminStatusInputs :
          AdminUpdateDriverStatus(d, st)

SpecStatus == Init /\ [][NextStatus]_vars

----------------------------------------------------------------------------
(* Properties of the route cache *)

\* A token is unexpired while less than the TTL has passed since some
\* quote was stored under it.
TokenLive(routeID) ==
    \E s \in stored : s.token = routeID /\ s.age < RouteTTL

TokenKnown(routeID) == \E s \in stored : s.token = routeID

RouteGone ==
    RespondError(410, "This route has expired. Please get a fresh estimate.")

\* C5: ride-create with a route token that was never stored or whose TTL
\* has run out answers 410 Gone with one and the same response body in both
\* cases, and inserts no ride.
C5_GoneOnUnknownOrExpired ==
    [][\A u \in Users, rid \in RouteIDs, vt \in VehicleTypes :
         (CreateRide(u, [RouteID |-> rid, VehicleType |-> vt])
            /\ ~TokenLive(rid))
         => (http'.resp = RouteGone /\ rides' = rides)]_vars

\* A ride-create on a token that was stored and has expired was answered 410.
C5_Witness ==
    /\ http.req.op = "CreateRide"
    /\ http.resp.code = 410
    /\ TokenKnown(http.req.routeId)
    /\ ~TokenLive(http.req.routeId)

\* C6: every quote ever stored is what a fetch of its token returns while
\* less than the TTL has passed since it was stored, and a fetch of its
\* token is NotFound from then on.
C6_FetchUntilTTL ==
    \A s \in stored :
        LET got == GetPlannedRoute(routeCache, s.token)
        IN IF s.age < RouteTTL
           THEN ~got.err /\ got.route = s.quote
           ELSE got.err

\* C7: a ride-create on an unexpired token succeeds, adds a ride with an id
\* no other ride has, and leaves the cached quote as it was; so the same
\* token creates a ride every time it is presented.
C7_RedeemKeepsToken ==
    [][\A u \in Users, rid \in RouteIDs, vt \in VehicleTypes :
         (CreateRide(u, [RouteID |-> rid, VehicleType |-> vt])
            /\ TokenLive(rid))
         => /\ http'.resp.code = 201
            /\ Len(rides') = Len(rides) + 1
            /\ \A i \in 1..Len(rides) : rides[i].id # rides'[Len(rides')].id
            /\ routeCache' = routeCache]_vars

\* Two rides were created from one token, which is still cached.
C7_Witness ==
    /\ Len(rides) >= 2
    /\ rides[1].routeId = rides[2].routeId
    /\ rides[1].id # rides[2].id
    /\ rides[1].routeId \in DOMAIN routeCache

PricedData(ride) ==
    [fare |-> ride.charge, distance |-> ride.estimatedDistance,
     distanceText |-> ride.distance,
     duration |-> ride.estimatedDuration, vehicleType |-> ride.vehicleType,
     originName |-> ride.currentLocationName,
     destinationName |-> ride.destinationLocationName,
     originLat |-> ride.originLat, originLng |-> ride.originLng,
     destinationLat |-> ride.destinationLat,
     destinationLng |-> ride.destinationLng]

QuoteData(quote) ==
    [fare |-> quote.Fare, distance |-> quote.Distance,
     distanceText |-> ToString(quote.Distance),
     duration |-> quote.Duration, vehicleType |-> quote.VehicleType,
     originName |-> quote.OriginName,
     destinationName |-> quote.DestinationName,
     originLat |-> quote.OriginLat, originLng |-> quote.OriginLng,
     destinationLat |-> quote.DestinationLat,
     destinationLng |-> quote.DestinationLng]

\* C8: the ride a ride-create inserts carries the fare, distance, duration,
\* vehicle class and origin/destination of an unexpired quote stored under
\* its token, and the same request with any other vehicle class in its body
\* would insert a ride with the same priced data.
C8_PricedFromQuote ==
    [][\A u \in Users, rid \in RouteIDs, vt \in VehicleTypes :
         (CreateRide(u, [RouteID |-> rid, VehicleType |-> vt])
            /\ Len(rides') > Len(rides))
         => LET ride == rides'[Len(rides')]
            IN /\ \E s \in stored :
                     /\ s.token = rid
                     /\ s.age < RouteTTL
                     /\ PricedData(ride) = QuoteData(s.quote)
               /\ \A vt2 \in VehicleTypes :
                     PricedData(NewRide(ride.id, u,
                         [RouteID |-> rid, VehicleType |-> vt2],
                         GetPlannedRoute(routeCache, rid).route))
                     = PricedData(ride)]_vars

\* A ride was created by a request whose body names another vehicle class
\* than the quote.
C8_Witness ==
    /\ http.req.op = "CreateRide"
    /\ http.resp.code = 201
    /\ rides[http.resp.data.rideId].vehicleType # http.req.vehicleType

\* C9: no two distinct quotes are ever stored under the same route token.
C9_UniqueToken ==
    \A s1, s2 \in stored : s1.token = s2.token => s1.quote = s2.quote

----------------------------------------------------------------------------
(* Properties of the ride status transition and of dispatch *)

IsAccept(r) ==
    r.op = "UpdatingRideStatus" /\ r.body.RideStatus = "Accepted"

\* C1: of two Accepted requests that two different drivers have in flight
\* at the same time on a ride in Requested state, exactly one is answered
\* with success, and the ride is then assigned to the driver of that one.
C1_ExactlyOneAccepts ==
    \A d \in Drivers, e \in Drivers :
        (/\ d # e
         /\ req[d].pc = "done" /\ IsAccept(req[d]) /\ req[d].seen # <<>>
         /\ req[e].pc = "done" /\ IsAccept(req[e]) /\ req[e].seen # <<>>
         /\ req[e].body = req[d].body
         /\ req[d].seen.rideStatus = "Requested"
         /\ e \in req[d].seen.rivals)
        => /\ (req[d].resp.code = 200) # (req[e].resp.code = 200)
           /\ rides[req[d].body.RideID].driverId =
                  (IF req[d].resp.code = 200 THEN d ELSE e)

\* Driver d was sent a push notification or a newRide event for ride id.
Notified(d, id) ==
    \/ [rideId |-> id, token |-> driver[d].notificationToken] \in pushes
    \/ [event |-> "newRide", room |-> "driver:" \o d, rideId |-> id]
           \in emitted

\* C2: an Accepted request of a driver who is online and active in the
\* system of record and was notified of the ride, handled while the ride is
\* in Requested state, succeeds and leaves the ride Accepted and assigned
\* to that driver.
C2_FirstAcceptWins ==
    [][\A d \in Drivers :
         (/\ UpdatingRideStatus(d)
          /\ req[d].body.RideStatus = "Accepted"
          /\ req[d].body.RideID \in 1..Len(rides)
          /\ rides[req[d].body.RideID].status = "Requested"
          /\ driver[d].isOnline
          /\ driver[d].status = "active"
          /\ Notified(d, req[d].body.RideID))
         => /\ req'[d].resp.code = 200
            /\ rides'[req[d].body.RideID].status = "Accepted"
            /\ rides'[req[d].body.RideID].driverId = d]_vars

Eligible(d, id) ==
    /\ driver[d].isOnline
    /\ driver[d].status = "active"
    /\ driver[d].vehicle_type = rides[id].vehicleType
    /\ driver[d].notificationToken \notin {NULL, ""}

InDispatchRadius(d, id) ==
    d \in DriverIDs(GetNearbyDrivers(geo, driverData, rides[id].originLat,
                                     rides[id].originLng, DispatchRadius))

\* C4: every push notification and every newRide event a step adds for a
\* ride is addressed to a driver who is in the geospatial index within the
\* dispatch radius of the pickup and passes the eligibility filter.
C4_OnlyEligibleNotified ==
    [][/\ \A p \in pushes' \ pushes :
            \E d \in Drivers :
                /\ driver[d].notificationToken = p.token
                /\ Eligible(d, p.rideId) /\ InDispatchRadius(d, p.rideId)
       /\ \A n \in emitted' \ emitted :
            \E d \in Drivers :
                /\ n.room = "driver:" \o d
                /\ Eligible(d, n.rideId) /\ InDispatchRadius(d, n.rideId)
      ]_vars

----------------------------------------------------------------------------
(* Properties of the geospatial index *)

Radii == {1, 3, DispatchRadius}

\* The farthest, squared, that the position the index answers with lies
\* from the position it was given.
IndexError == 2 * (GeoCell \div 2) * (GeoCell \div 2)

Returned(g, data, d, lat, lon, radius) ==
    d \in DriverIDs(GetNearbyDrivers(g, data, lat, lon, radius))

\* C10 as stated: when a position update of a driver has completed with no
\* other write to the driver's entry in between, a nearby query at the
\* same point returns the driver, whatever the positive radius.
C10_ReturnedAtAnyRadius ==
    [][\A sock \in Sockets :
         (LocationUpdateSet(sock) /\ upd[sock].clean)
         => \A r \in Radii :
                Returned(geo', driverData', upd[sock].driverId,
                         upd[sock].lat, upd[sock].lon, r)]_vars

\* C10: when a position update of a driver has completed with no other
\* write to the driver's entry in between, a nearby query at the same point
\* returns the driver for every radius that is not smaller than the
\* position error of the index.
C10_ReturnedAtIndexedRadius ==
    [][\A sock \in Sockets :
         (LocationUpdateSet(sock) /\ upd[sock].clean)
         => \A r \in {x \in Radii : x * x >= IndexError} :
                Returned(geo', driverData', upd[sock].driverId,
                         upd[sock].lat, upd[sock].lon, r)]_vars

\* A driver's update at a point the index does not keep exactly has just
\* completed, and the query at that point with the dispatch radius returns
\* the driver.
C10_Witness ==
    \E d \in Drivers, p \in Points :
        /\ d \in DOMAIN geo /\ d \in DOMAIN driverData
        /\ driverData[d].ttl = DriverTTL
        /\ UnmarshalDriverLocation(driverData[d].val).Latitude = p[1]
        /\ UnmarshalDriverLocation(driverData[d].val).Longitude = p[2]
        /\ geo[d] = [lat |-> GeoEncode(p[1]), lon |-> GeoEncode(p[2])]
        /\ GeoDecode(geo[d].lat) # p[1]
        /\ \A s \in Sockets : upd[s].pc = "idle"
        /\ Returned(geo, driverData, d, p[1], p[2], DispatchRadius)

ValidPoints == {p \in Points : Abs(p[1]) <= MaxLat /\ Abs(p[2]) <= MaxLon}

Deactivating == {"inactive", "suspended", "rejected", "pending"}

\* C11: right after a driver was removed from the index, no nearby query
\* returns the driver, at any point and any radius, whether the driver was
\* in the index with metadata, without metadata, or not at all.
C11_RemovedNotReturned ==
    [][\A d \in Drivers, st \in AdminStatusInputs \cap Deactivating :
         AdminUpdateDriverStatus(d, st)
         => \A p \in ValidPoints, r \in Radii :
                ~Returned(geo', driverData', d, p[1], p[2], r)]_vars

\* A suspended driver whose index entry was removed after a position update
\* had written it, and whom the query at the reported point does not return.
C11_Witness ==
    \E d \in Drivers, s \in Sockets :
        /\ driver[d].status = "suspended"
        /\ upd[s].pc = "set" /\ upd[s].driverId = d
        /\ d \notin DOMAIN geo
        /\ ~Returned(geo, driverData, d, upd[s].lat, upd[s].lon,
                     DispatchRadius)

\* C12: a driver whose last completed position update is an hour or more
\* old, or who never sent one, is returned by no nearby query; a driver
\* whose last completed position update is less than an hour old still has
\* the index entry and the metadata, so every update restarts the hour.
C12_ExpiresAfterIdleHour ==
    \A d \in Drivers :
        IF sinceBeat[d] >= DriverTTL
        THEN \A p \in ValidPoints, r \in Radii :
                 ~Returned(geo, driverData, d, p[1], p[2], r)
        ELSE /\ d \in DOMAIN geo
             /\ d \in DOMAIN driverData
             /\ driverData[d].ttl = DriverTTL - sinceBeat[d]

\* A driver's index entry outlived the metadata: the hour has passed since
\* the last update and the query at the reported cell misses the driver.
C12_Witness ==
    \E d \in Drivers :
        /\ sinceBeat[d] >= DriverTTL
        /\ d \in DOMAIN geo
        /\ upd[SocketOf[d]].pc = "idle"
        /\ ~Returned(geo, driverData, d, GeoDecode(geo[d].lat),
                     GeoDecode(geo[d].lon), DispatchRadius)

\* C13: whenever no position update is between its two store commands,
\* every driver in the spatial index has a metadata record.
C13_IndexEntryHasMetadata ==
    (\A s \in Sockets : upd[s].pc = "idle")
    => \A d \in DOMAIN geo : d \in DOMAIN driverData

\* C14: when an online driver toggles the online state, or a driver logs
\* out, or an admin suspends or rejects a driver, the step leaves the driver
\* out of the geospatial index and the dispatch query at the driver's last
\* position does not return the driver.
C14_RemovedWhenUnavailable ==
    [][\A d \in Drivers :
         (\/ ToggleOnline(d) /\ driver[d].isOnline
          \/ DriverLogout(d)
          \/ \E st \in {"suspended", "rejected"} :
                AdminUpdateDriverStatus(d, st))
         => /\ d \notin DOMAIN geo'
            /\ ~Returned(geo', driverData', d, DriverSpot[d][1],
                         DriverSpot[d][2], DispatchRadius)]_vars

\* The drivers whose metadata record names the socket.
SessionDrivers(sock) ==
    {d \in DOMAIN driverData :
        UnmarshalDriverLocation(driverData[d].val).SocketID = sock}

\* C15: when a socket disconnects, the drivers whose position it reported
\* have neither an index entry nor a metadata record afterwards, and the
\* dispatch query at their last position does not return them.
C15_DisconnectRemoves ==
    [][\A sock \in Sockets :
         Disconnect(sock)
         => \A d \in SessionDrivers(sock) :
                /\ d \notin DOMAIN geo'
                /\ d \notin DOMAIN driverData'
                /\ ~Returned(geo', driverData', d,
                             UnmarshalDriverLocation(driverData[d].val).Latitude,
                             UnmarshalDriverLocation(driverData[d].val).Longitude,
                             DispatchRadius)]_vars

OutOfRange(lat, lon) == Abs(lat) > MaxLat \/ Abs(lon) > MaxLon

\* C16: a position update whose latitude or longitude is out of range
\* leaves the index and the metadata as they were, and over HTTP it is
\* answered 400.
C16_OutOfRangeRejected ==
    [][/\ \A d \in Drivers, snapErr \in BOOLEAN, storeDown \in BOOLEAN :
            (/\ UpdateDriverLocationHandler(d, snapErr, storeDown)
             /\ OutOfRange(req[d].body.Lat, req[d].body.Lng))
            => /\ req'[d].resp.code = 400
               /\ geo' = geo /\ driverData' = driverData
       /\ \A d \in Drivers, sock \in Sockets, p \in HeartbeatPoints :
            (/\ LocationUpdate(sock, [role |-> "driver", driverId |-> d, userId |-> "",
                                      latitude |-> p[1],
                                      longitude |-> p[2]])
             /\ OutOfRange(p[1], p[2]))
            => (geo' = geo /\ driverData' = driverData)]_vars

\* C17: a position heartbeat over HTTP that the store refuses is answered
\* 500 or 503.
C17_StoreFailureSurfaced ==
    [][\A d \in Drivers, snapErr \in BOOLEAN :
         (/\ UpdateDriverLocationHandler(d, snapErr, TRUE)
          /\ req[d].body.Lat # 0 /\ req[d].body.Lng # 0)
         => req'[d].resp.code \in {500, 503}]_vars

\* C18: a ride-create that inserts a ride answers 201 with the id of the
\* ride and the length of the nearby list it obtained, which is the
\* unfiltered result of the nearby query or empty when the query failed;
\* and no run of the dispatch goroutine, failing or not, changes the
\* response or the ride.
C18_CreatedWhateverFanout ==
    [][/\ \A u \in Users, rid \in RouteIDs, vt \in VehicleTypes :
            (/\ Len(rides') = Len(rides) + 1
             /\ CreateRide(u, [RouteID |-> rid, VehicleType |-> vt]))
            => LET ride == rides'[Len(rides')]
                   raw == GetNearbyDrivers(geo, driverData, ride.originLat,
                                           ride.originLng, DispatchRadius)
               IN /\ http'.resp.code = 201
                  /\ http'.resp.data.rideId = ride.id
                  /\ \E t \in bgTasks' \ bgTasks :
                        /\ t.nearbyDrivers \in {<<>>, raw}
                        /\ http'.resp.data.nearbyDrivers =
                               Len(t.nearbyDrivers)
       /\ \A task \in bgTasks :
            BgDispatch(task) => (http' = http /\ rides' = rides)]_vars

\* A ride-create was answered 201 with a positive driver count, its
\* dispatch goroutine has run, and nothing was published or pushed.
C18_Witness ==
    /\ http.req.op = "CreateRide"
    /\ http.resp.code = 201
    /\ http.resp.data.nearbyDrivers > 0
    /\ bgTasks = {}
    /\ channel = <<>> /\ emitted = {} /\ pushes = {}

\* C19: the step of ride-create that inserts a ride produces the 201
\* response while its dispatch goroutine has not run: the goroutine is
\* pending after the step, and nothing was pushed or published by it.
C19_ResponseBeforeFanout ==
    [][\A u \in Users, rid \in RouteIDs, vt \in VehicleTypes :
         (/\ Len(rides') = Len(rides) + 1
          /\ CreateRide(u, [RouteID |-> rid, VehicleType |-> vt]))
         => /\ http'.resp.code = 201
            /\ \E t \in bgTasks' \ bgTasks :
                  t.rideId = rides'[Len(rides')].id
            /\ pushes' = pushes /\ channel' = channel
            /\ emitted' = emitted]_vars

\* The response of a ride-create is out and a driver's request on the ride
\* has been handled while the dispatch goroutine of the ride is pending.
C19_Witness ==
    /\ http.req.op = "CreateRide"
    /\ http.resp.code = 201
    /\ \E t \in bgTasks : t.rideId = http.resp.data.rideId
    /\ \E d \in Drivers :
          /\ req[d].pc = "done" /\ IsAccept(req[d])
          /\ req[d].body.RideID = http.resp.data.rideId

\* C20: once the process waits for its background tasks the wait ends; it
\* ends as completed only when every task started with SafeGo has
\* finished, and as timed out only when the grace period has elapsed.
C20_ShutdownWaitTerminates ==
    /\ (proc.phase = "waiting") ~> (proc.phase = "exited")
    /\ [](proc.outcome = "completed" => bgTasks = {})
    /\ [](proc.outcome = "timeout" => proc.timer = 0)

\* The wait ended by the timer with a dispatch goroutine still unfinished.
C20_Witness ==
    /\ proc.phase = "exited"
    /\ proc.outcome = "timeout"
    /\ bgTasks # {}

----------------------------------------------------------------------------
(* Properties of the realtime channel *)

\* The driver is a candidate for the ride request in the message: the
\* nearby lookup at the pickup point returns it.
Candidate(d, msg) ==
    LET event == UnmarshalRideRequestEvent(msg)
    IN Returned(geo, driverData, d, event.PickupLat, event.PickupLon,
                DispatchRadius)

\* C21: when the subscriber takes a ride request off the topic, every
\* candidate driver with a session in its driver room gets newRide for that
\* ride.
C21_PublishedReachesCandidates ==
    [][(DispatchRideRequest /\ ValidJSON(Head(channel))) =>
         \A d \in Drivers :
            (Candidate(d, Head(channel)) /\ Members(rt, DriverRoom(d)) # {})
            => \E g \in rt'.got :
                  /\ g.event = "newRide"
                  /\ g.room = DriverRoom(d)
                  /\ g.rideId = UnmarshalRideRequestEvent(Head(channel)).RideID
      ]_vars

\* The driver is assigned to a ride of the user.
MidRideWith(d, u) ==
    \E i \in 1..Len(rides) :
        /\ rides[i].driverId = d
        /\ rides[i].userId = u

\* C22: a position of a driver is relayed as rideUpdate only to the room
\* of the rider of a ride the driver is assigned to.
C22_RelayedOnlyToAssignedRider ==
    \A e \in rt.relayed : MidRideWith(e.driverId, e.room)

\* C26: a connected rider session is in the room of its user; a driver
\* session is in its driver room once a position update of it has been
\* handled; an event goes only to members of the room it is emitted to.
C26_SessionsInOwnRooms ==
    /\ [](\A sock \in rt.riders : UserOf[sock] \in rt.rooms[sock])
    /\ [][\A sock \in Sockets :
            LocationUpdateSet(sock) =>
               DriverRoom(upd[sock].driverId) \in rt'.rooms[sock]]_vars
    /\ [][\A g \in rt'.got \ rt.got : g.room \in rt'.rooms[g.sock]]_vars

----------------------------------------------------------------------------
(* Properties of the driver records *)

\* C23: a toggle-online call of an active driver flips the stored isOnline
\* flag, and a call made while online leaves the driver out of the
\* geospatial index.
C23_ToggleAlternates ==
    [][\A d \in Drivers :
         (ToggleOnline(d) /\ req[d].ctx.Status = "active")
         => /\ driver'[d].isOnline = ~driver[d].isOnline
            /\ driver[d].isOnline => d \notin DOMAIN geo']_vars

\* C29: a driver whose isOnline flag is set has status active.
C29_OnlineImpliesActive ==
    \A d \in Drivers : driver[d].isOnline => driver[d].status = "active"

----------------------------------------------------------------------------
(* Properties of concurrent position updates *)

\* No UpdateDriverLocation call for the driver is between its two store
\* commands.
Quiescent(d) ==
    \A sock \in Sockets : ~(upd[sock].pc = "set" /\ upd[sock].driverId = d)

\* C24: once the position updates of a driver have all returned, the
\* spatial entry and the metadata record of the driver hold the
\* coordinates of one and the same call.
C24_LastWriteWins ==
    \A d \in Drivers :
        (Quiescent(d) /\ d \in DOMAIN geo /\ d \in DOMAIN driverData)
        => LET data == UnmarshalDriverLocation(driverData[d].val)
           IN geo[d] = [lat |-> GeoEncode(data.Latitude),
                        lon |-> GeoEncode(data.Longitude)]

----------------------------------------------------------------------------
(* Properties of the request timeout *)

\* C25: once the middleware has returned, the client has got exactly one
\* response: the response of the handler when the middleware saw the
\* handler finish, the timeout error when it saw the deadline.
C25_ExactlyOneResponse ==
    \A q \in Requests :
        /\ call[q].pc = "done" => call[q].written = <<HandlerResponse>>
        /\ call[q].pc = "timedout" => call[q].written = <<TimeoutResponse>>

----------------------------------------------------------------------------
(* Properties of the dispatcher *)

\* The ride request of the ride is on the topic, not yet taken.
Queued(id) ==
    \E i \in 1..Len(channel) :
        ValidJSON(channel[i])
        /\ UnmarshalRideRequestEvent(channel[i]).RideID = id

\* C27: the subscriber stays subscribed whatever it has received, and
\* every ride request on the topic is eventually taken by it.
C27_DispatcherSurvivesFailure ==
    /\ [](rt.sub = "running")
    /\ \A id \in 1..MaxRides : Queued(id) ~> ~Queued(id)

\* The subscriber has logged an error for one message and dispatched a
\* later one.
C27_Witness ==
    \E i \in 1..Len(rt.dispatchLog) :
        /\ rt.dispatchLog[i].level = "error"
        /\ \E j \in (i + 1)..Len(rt.dispatchLog) :
              /\ rt.dispatchLog[j].level = "info"
              /\ \E e \in emitted :
                    e.rideId = rt.dispatchLog[j].rideId

----------------------------------------------------------------------------
(* Properties of the vehicle class of a dispatch *)

\* C28: the push notifications a dispatch goroutine sends for a ride go to
\* drivers whose vehicle class is the class of the ride record, and when it
\* sends any, to every eligible driver of that class within the radius.
C28_NotifiedMatchRideClass ==
    [][\A task \in bgTasks :
         BgDispatch(task) =>
            /\ \A p \in pushes' \ pushes :
                  \E d \in Drivers :
                     /\ driver[d].notificationToken = p.token
                     /\ driver[d].vehicle_type = rides[p.rideId].vehicleType
            /\ pushes' # pushes =>
                  \A d \in Drivers :
                     (Eligible(d, task.rideId)
                      /\ InDispatchRadius(d, task.rideId))
                     => [rideId |-> task.rideId,
                         token |-> driver[d].notificationToken] \in pushes'
      ]_vars

----------------------------------------------------------------------------
(* Properties of the ride status *)

TerminalRideStatus == {"Completed", "Cancelled"}

====
